---- MODULE Spec2Model ----
(***************************************************************************)
(* Decoding procedures of the machine-translation notebook:                *)
(* beam_search, greedy_search and the text cleanup beautify, with the      *)
(* translation model seen as a scorer that returns one next-token          *)
(* distribution per batch row.                                             *)
(*                                                                         *)
(* Likelihoods are kept as exact products: [n, k, d] stands for            *)
(* n / ProbDen^k * (DecayNum / DecayDen)^d.  The float32 rounding of the   *)
(* tensors is not modelled.                                                *)
(***************************************************************************)
EXTENDS Integers, Sequences, FiniteSets, TLC

\* ------------------------------------------------------------------ bounds
MaxBeam == 2      \* largest beam_width drawn
MaxTarget == 3    \* largest max_target drawn
MaxLen == 3       \* largest max_sentence_length drawn with a free scorer
MaxStr == 4       \* longest string given to beautify

\* ------------------------------------------------------- program constants
UNK_IDX == 0
PAD_IDX == 1
BOS_IDX == 2
EOS_IDX == 3
TOK_A == 4
TOK_B == 5
PadValue == 0     \* torch.zeros: the value appended to terminated rows
DecayNum == 999   \* 0.999 = DecayNum / DecayDen
DecayDen == 1000
ProbDen == 10     \* the scorer's probabilities are tenths
BigBase == 1000   \* digit base of the exact comparison

Vocab == 0..5

\* ------------------------------------------------------------------ state
VARIABLES
    beam_width, max_target, max_sentence_length,  \* arguments of the calls
    scenario,      \* TRUE: the scorer of the concrete scenario; FALSE: any
    tie,           \* order in which this build's topk ranks equal values
    model,         \* the scorer: (source, target prefix) -> distribution,
                   \* fixed on every pair it has been asked about
    pc,            \* position of the driver
    call,          \* ordinal of the running beam_search call
    tgt_tokens,    \* beam_search: the pool's token rows
    target_probs,  \* beam_search: the pool's likelihoods
    merged,        \* beam_search: the pool of the last iteration, untrimmed
    sentences,     \* beam_search: the returned list
    first,         \* list returned by the first beam_search call
    g_tgt,         \* greedy_search: tgt_tensor[0]
    g_iter,        \* greedy_search: iterations of the for loop done
    g_out,         \* greedy_search: the returned sentence
    g_pc,          \* greedy_search: position of the call
    training,      \* model.training: the mode of the shared model
    fault,         \* how the scorer fails, if it does
    batch,         \* beam_search: arguments of the last model.forward
    before,        \* beam_search: target_probs when the last iteration began
    calls,         \* beam_search: model.forward invocations of this call
    pools,         \* per beam_search call, its pool after each iteration
    differs,       \* the second scorer answers a prefix otherwise than the first
    sentence,      \* beautify: the argument
    punc, links,   \* beautify: iteration orders of its two sets
    once, twice    \* beautify(sentence), beautify(beautify(sentence))

vars == <<beam_width, max_target, max_sentence_length, scenario, tie, model,
          pc, call, tgt_tokens, target_probs, merged, sentences, first,
          g_tgt, g_iter, g_out, g_pc, training, fault, batch, before, calls,
          pools, differs, sentence, punc, links, once, twice>>

beamVars == <<beam_width, max_target, max_sentence_length, scenario, tie,
              model, call, tgt_tokens, target_probs, merged, sentences, first,
              g_tgt, g_iter, g_out, g_pc, training, fault, batch, before,
              calls, pools, differs>>

\* the shared model's mode and the scorer's kind of failure
envVars == <<training, fault>>

\* what the last loop iteration of beam_search started from
histVars == <<batch, before, calls, pools, differs>>

textVars == <<sentence, punc, links, once, twice>>

\* ---------------------------------------------------------------- strings
\* A string is a sequence of one-character strings.

\* the positions of s at which old occurs
Occurrences(s, old) ==
    {i \in 1..(Len(s) - Len(old) + 1) : \A j \in 1..Len(old) : s[i + j - 1] = old[j]}

RECURSIVE Replace(_, _, _)
\* str.replace(old, new): left to right, occurrences do not overlap
Replace(s, old, new) ==
    IF Occurrences(s, old) = {} THEN s
    ELSE LET at == CHOOSE i \in Occurrences(s, old) : \A j \in Occurrences(s, old) : i <= j
         IN  SubSeq(s, 1, at - 1) \o new
                \o Replace(SubSeq(s, at + Len(old), Len(s)), old, new)

RECURSIVE StripPunc(_, _)
\* for p in punc: sentence = sentence.replace(f' {p}', p)
StripPunc(s, ps) ==
    IF ps = <<>> THEN s
    ELSE StripPunc(Replace(s, <<" ", Head(ps)>>, <<Head(ps)>>), Tail(ps))

RECURSIVE StripLinks(_, _)
\* for l in links: replace(f'{l} ', l) then replace(f' {l}', l)
StripLinks(s, ls) ==
    IF ls = <<>> THEN s
    ELSE StripLinks(
            Replace(Replace(s, <<Head(ls), " ">>, <<Head(ls)>>),
                    <<" ", Head(ls)>>, <<Head(ls)>>),
            Tail(ls))

\* a string none of whose characters the replacements look for is returned
\* as it is by all of them
beautify(s, ps, ls) ==
    IF \A i \in 1..Len(s) : s[i] \notin {".", ",", ";", "-", "'"}
    THEN s
    ELSE StripLinks(StripPunc(s, ps), ls)

\* the orders in which a set of strings can be iterated
Orders(S) == {q \in [1..Cardinality(S) -> S] : \A i, j \in 1..Cardinality(S) : q[i] = q[j] => i = j}

PuncOrders == Orders({".", ",", ";"})
LinksOrders == Orders({"-", "'"})

Alphabet == {" ", ".", ",", "-", "'", "a"}

Strings == UNION {[1..n -> Alphabet] : n \in 0..MaxStr}

\* ------------------------------------------------------------- vocabulary
\* tgt_vocab.lookup_tokens: the specials come first in the vocabulary
Itos(i) ==
    CASE i = UNK_IDX -> <<"<", "u", "n", "k", ">">>
      [] i = PAD_IDX -> <<"<", "p", "a", "d", ">">>
      [] i = BOS_IDX -> <<"<", "b", "o", "s", ">">>
      [] i = EOS_IDX -> <<"<", "e", "o", "s", ">">>
      [] i = TOK_A -> <<"a">>
      [] i = TOK_B -> <<"b">>

RECURSIVE Join(_)
\* ' '.join(tokens)
Join(toks) ==
    IF toks = <<>> THEN <<>>
    ELSE IF Len(toks) = 1 THEN Itos(toks[1])
    ELSE Itos(toks[1]) \o <<" ">> \o Join(Tail(toks))

\* the source sentence, tokenized and looked up in src_vocab
SourceTokens == <<TOK_A, TOK_B>>

\* ------------------------------------------------------------ likelihoods
One == [n |-> 1, k |-> 0, d |-> 0]

\* float('nan'): a negative numerator stands for it
NaN == [n |-> 0 - 1, k |-> 0, d |-> 0]

IsNaN(a) == a.n < 0

Prob(p) == IF p < 0 THEN NaN ELSE [n |-> p, k |-> 1, d |-> 0]

\* a product with nan is nan
Mul(a, b) ==
    IF IsNaN(a) \/ IsNaN(b) THEN NaN
    ELSE [n |-> a.n * b.n, k |-> a.k + b.k, d |-> a.d + b.d]

\* no penalty
DecayNone(a) == a

\* a reward in the place of the penalty
DecayUp(a) == [a EXCEPT !.d = @ - 1]

Decay(a) == IF IsNaN(a) THEN a ELSE [a EXCEPT !.d = @ + 1]

RECURSIVE FromNat(_)
FromNat(x) == IF x = 0 THEN <<>> ELSE <<x % BigBase>> \o FromNat(x \div BigBase)

RECURSIVE MulSmall(_, _, _)
MulSmall(x, m, carry) ==
    IF x = <<>>
    THEN FromNat(carry)
    ELSE LET t == Head(x) * m + carry
         IN  <<t % BigBase>> \o MulSmall(Tail(x), m, t \div BigBase)

RECURSIVE MulPow(_, _, _)
MulPow(x, m, e) == IF e = 0 THEN x ELSE MulPow(MulSmall(x, m, 0), m, e - 1)

RECURSIVE BigGt(_, _)
BigGt(x, y) ==
    IF Len(x) # Len(y) THEN Len(x) > Len(y)
    ELSE IF x = <<>> THEN FALSE
    ELSE IF x[Len(x)] # y[Len(y)] THEN x[Len(x)] > y[Len(y)]
    ELSE BigGt(SubSeq(x, 1, Len(x) - 1), SubSeq(y, 1, Len(y) - 1))

Min(a, b) == IF a < b THEN a ELSE b

\* the value of a against the value of b, both times the same positive factor
Scaled(a, b) ==
    LET mk == Min(a.k, b.k)
        md == Min(a.d, b.d)
    IN  MulPow(MulPow(MulPow(FromNat(a.n), ProbDen, b.k - mk),
                      DecayNum, a.d - md),
               DecayDen, b.d - md)

\* a > b; products of as many factors of each kind compare as their
\* numerators; no comparison with nan is true
Gt(a, b) ==
    IF IsNaN(a) \/ IsNaN(b) THEN FALSE
    ELSE IF a.k = b.k /\ a.d = b.d THEN a.n > b.n
    ELSE BigGt(Scaled(a, b), Scaled(b, a))

Geq(a, b) == ~Gt(b, a)

\* ------------------------------------------------------------------- topk
\* the order of topk: nan ranks above every number
TopGt(a, b) == IF IsNaN(a) THEN ~IsNaN(b) ELSE Gt(a, b)

TopKLowFirst(v, i, j) == TopGt(v[i], v[j]) \/ (~TopGt(v[j], v[i]) /\ i < j)

TopKHighFirst(v, i, j) == TopGt(v[i], v[j]) \/ (~TopGt(v[j], v[i]) /\ i > j)

\* equal values ranked in an order that changes from call to call
BeforePerCall(v, i, j) == IF call = 1 THEN TopKLowFirst(v, i, j) ELSE TopKHighFirst(v, i, j)

\* i is ranked before j by topk: larger values first; the order of equal
\* values is not set by the library and is the build's
Before(v, i, j) == IF tie = "low" THEN TopKLowFirst(v, i, j) ELSE TopKHighFirst(v, i, j)

RECURSIVE TopKOf(_, _, _)
TopKOf(v, S, k) ==
    IF k = 0 \/ S = {} THEN <<>>
    ELSE LET b == CHOOSE i \in S : \A j \in S \ {i} : Before(v, i, j)
         IN  <<b>> \o TopKOf(v, S \ {b}, k - 1)

\* tensor.topk(k): the indices of the k largest values, largest first
TopK(v, k) == TopKOf(v, DOMAIN v, k)

\* ----------------------------------------------------------------- scorer
\* softmax of the model's output at the last position: a distribution over
\* the vocabulary, in units of 1 / ProbDen
Dist(pairs) == [t \in Vocab |-> IF t \in DOMAIN pairs THEN pairs[t] ELSE 0]

EosOne == Dist(EOS_IDX :> ProbDen)
AB == Dist(TOK_A :> 6 @@ TOK_B :> 4)
Half == Dist(UNK_IDX :> 5 @@ EOS_IDX :> 5)

Dists == {EosOne, AB, Half}

\* softmax of an output that holds a nan: the whole row is nan
NaNDist == [t \in Vocab |-> 0 - 1]

\* the distributions drawn for a prefix that holds the end marker
EndedDists == {EosOne, AB}

Contains(row, tok) == \E p \in 1..Len(row) : row[p] = tok

\* the scorer of the concrete scenario: 0.6 for a and 0.4 for b until the
\* prefix has length 4, then 1.0 for the end marker
ScenarioDist(tgt) == IF Len(tgt) < 4 THEN AB ELSE EosOne

\* what the scorer may return on the pairs of a batch.  In evaluation mode:
\* what it returned before on a pair already asked, a distribution of its
\* own on a new one.  In training mode dropout is active and every
\* invocation draws anew.  A scorer failing by nan may return a nan row.
Answers(keys) ==
    LET new == IF training THEN keys ELSE keys \ DOMAIN model
        drawn == IF fault = "nan" THEN Dists \cup {NaNDist} ELSE Dists
    IN  IF scenario
        THEN {[key \in new |-> ScenarioDist(key[2])]}
        ELSE {f \in [new -> drawn] :
                \A key \in new : Contains(key[2], EOS_IDX) => f[key] \in EndedDists}

\* the model after an invocation: the answers of evaluation mode are the
\* model's function, those of training mode are of that invocation only
Learned(m) == IF training THEN model ELSE m

\* a tensor with one entry per row: the function, held as a sequence
Tensor(f) == f \o <<>>

\* model.forward(src, tgt) then softmax: one distribution per batch row
Forward(m, src, tgt) == Tensor([i \in 1..Len(tgt) |-> m[<<src[i], tgt[i]>>]])

\* --------------------------------------------------------- tensor helpers
RECURSIVE Ascending(_)
\* the members of a set of indices, in increasing order
Ascending(S) ==
    IF S = {} THEN <<>>
    ELSE LET m == CHOOSE x \in S : \A y \in S : x <= y
         IN  <<m>> \o Ascending(S \ {m})

\* torch.index_select(t, dim=0, index=idx)
index_select(t, idx) == Tensor([j \in 1..Len(idx) |-> t[idx[j]]])

\* as many rows as there are indices, taken from the top of the tensor
filter_t_head(t, idx) == SubSeq(t, 1, Len(idx))

\* filter_t: the rows of the hypotheses that are not terminated
filter_t(t, idx) == index_select(t, idx)

\* every row counted among the rows that go on
indices_terminated_both(target, eos_token) ==
    <<Ascending({i \in 1..Len(target) : Contains(target[i], eos_token)}),
      Ascending(1..Len(target))>>

indices_terminated(target, eos_token) ==
    <<Ascending({i \in 1..Len(target) : Contains(target[i], eos_token)}),
      Ascending({i \in 1..Len(target) : ~Contains(target[i], eos_token)})>>

\* the copies laid out beam by beam instead of row by row
append_beams_by_beam(target, beams, n_beams) ==
    Tensor([r \in 1..(Len(target) * n_beams) |->
        LET i == ((r - 1) % Len(target)) + 1
            j == ((r - 1) \div Len(target)) + 1
        IN  Append(target[i], beams[i][j])])

\* rows of target repeated once per beam, each with its beam appended
append_beams(target, beams, n_beams) ==
    Tensor([r \in 1..(Len(target) * n_beams) |->
        LET i == ((r - 1) \div n_beams) + 1
            j == ((r - 1) % n_beams) + 1
        IN  Append(target[i], beams[i][j])])

\* every child given the probability of its parent's first beam
expand_probs_first(p, probs, n_beams) ==
    Tensor([r \in 1..(Len(p) * n_beams) |->
        LET i == ((r - 1) \div n_beams) + 1
        IN  Mul(p[i], probs[i][1])])

\* torch.repeat_interleave(p, n) * probs.flatten()
expand_probs(p, probs, n_beams) ==
    Tensor([r \in 1..(Len(p) * n_beams) |->
        LET i == ((r - 1) \div n_beams) + 1
            j == ((r - 1) % n_beams) + 1
        IN  Mul(p[i], probs[i][j])])

\* the penalty given to the rows that go on instead of the terminated ones
update_probs_others(p_others, probs, p_terminated, n_beams) ==
    LET children == expand_probs(p_others, probs, n_beams)
    IN  Tensor([r \in 1..Len(children) |-> Decay(children[r])]) \o p_terminated

\* the likelihoods of the children alone
update_probs_children(p_others, probs, p_terminated, n_beams) ==
    expand_probs(p_others, probs, n_beams)

\* the likelihoods of the merged pool: the children's, then the terminated
\* rows' times 0.999
update_probs(p_others, probs, p_terminated, n_beams) ==
    expand_probs(p_others, probs, n_beams)
        \o Tensor([i \in 1..Len(p_terminated) |-> Decay(p_terminated[i])])

\* --------------------------------------------------------- beam_search
\* src_tokens = ['<bos>'] + src_tokenizer(source) + ['<eos>']
BeamSource == <<BOS_IDX>> \o SourceTokens \o <<EOS_IDX>>

\* the source given without its markers
BatchBareSource(tokens) ==
    [src |-> Tensor([i \in 1..Len(tokens) |-> SourceTokens]), tgt |-> tokens]

\* the arguments of model.forward: the source repeated once per row of the
\* pool, and the pool
Batch(tokens) ==
    [src |-> Tensor([i \in 1..Len(tokens) |-> BeamSource]), tgt |-> tokens]

\* one invocation for every row of the batch
InvokedPerRow(n, tokens) == n + Len(tokens)

\* the invocations of model.forward after one more loop iteration
Invoked(n, tokens) == n + 1

\* the loop going on while the length equals the bound
LoopCondInclusive(tokens, msl) == Len(tokens[1]) <= msl

\* the loop going on until every row holds the end marker
LoopUntilTerminated(tokens, msl) == \E i \in 1..Len(tokens) : ~Contains(tokens[i], EOS_IDX)

\* the loop left as soon as no row is without the end marker
LoopWhileActive(tokens, msl) ==
    /\ Len(tokens[1]) < msl
    /\ \E i \in 1..Len(tokens) : ~Contains(tokens[i], EOS_IDX)

\* the loop left one iteration early
LoopCondShort(tokens, msl) == Len(tokens[1]) < msl - 1

LoopCond(tokens, msl) == Len(tokens[1]) < msl

\* merged pool of one iteration, before the trim: [tokens, probs]
Expand(tokens, probs, predicted, bw) ==
    LET n == Len(tokens)
        top == Tensor([i \in 1..n |-> TopK([t \in Vocab |-> Prob(predicted[i][t])], bw)])
        topp == Tensor([i \in 1..n |-> Tensor([j \in 1..bw |-> Prob(predicted[i][top[i][j]])])])
        idx == indices_terminated(tokens, EOS_IDX)
        tgt_terminated == index_select(tokens, idx[1])
        tgt_probs_terminated == index_select(probs, idx[1])
        tgt_others == filter_t(tokens, idx[2])
        tgt_probs_others == filter_t(probs, idx[2])
        beams == filter_t(top, idx[2])
        bprobs == filter_t(topp, idx[2])
        padded == Tensor([i \in 1..Len(tgt_terminated) |-> Append(tgt_terminated[i], PadValue)])
    IN  [tokens |-> append_beams(tgt_others, beams, bw) \o padded,
         probs |-> update_probs(tgt_probs_others, bprobs, tgt_probs_terminated, bw)]

\* the trim keeping one row too many
TrimOneMore(pool, mt) ==
    IF Len(pool.probs) <= mt + 1 THEN pool
    ELSE LET indices == TopK(pool.probs, mt + 1)
         IN  [tokens |-> index_select(pool.tokens, indices),
              probs |-> index_select(pool.probs, indices)]

\* the first max_target rows kept, whatever their likelihoods
TrimFirst(pool, mt) ==
    IF Len(pool.probs) <= mt THEN pool
    ELSE [tokens |-> SubSeq(pool.tokens, 1, mt),
          probs |-> SubSeq(pool.probs, 1, mt)]

\* keep only the top max_target rows
Trim(pool, mt) ==
    IF Len(pool.probs) <= mt THEN pool
    ELSE LET indices == TopK(pool.probs, mt)
         IN  [tokens |-> index_select(pool.tokens, indices),
              probs |-> index_select(pool.probs, indices)]

RECURSIVE TakeWhileThrough(_, _)
\* the row up to the token and the token with it
TakeWhileThrough(row, tok) ==
    IF row = <<>> THEN <<>>
    ELSE IF Head(row) = tok THEN <<tok>>
    ELSE <<Head(row)>> \o TakeWhileThrough(Tail(row), tok)

RECURSIVE TakeWhileNot(_, _)
\* takewhile(lambda t: t != tok, row)
TakeWhileNot(row, tok) ==
    IF row = <<>> \/ Head(row) = tok THEN <<>>
    ELSE <<Head(row)>> \o TakeWhileNot(Tail(row), tok)

\* the row without its <bos>, not cut
StrippedUncut(row) == Tail(row)

\* a pooled row without its <bos>, cut before the first <eos>
Stripped(row) == TakeWhileNot(Tail(row), EOS_IDX)

RECURSIVE InsertDesc(_, _)
InsertDesc(s, x) ==
    IF s = <<>> THEN <<x>>
    ELSE IF Geq(Head(s)[2], x[2]) THEN <<Head(s)>> \o InsertDesc(Tail(s), x)
    ELSE <<x>> \o s

\* the pairs left in pool order
SortedDescNot(s) == s

RECURSIVE SortedDesc(_)
\* sorted(pairs, key=lambda k: k[1], reverse=True): stable
SortedDesc(s) ==
    IF s = <<>> THEN <<>>
    ELSE InsertDesc(SortedDesc(SubSeq(s, 1, Len(s) - 1)), s[Len(s)])

\* the sentences that are not empty
SentencesNonEmpty(tokens) ==
    SelectSeq(Tensor([i \in 1..Len(tokens) |-> Join(Stripped(tokens[i]))]),
              LAMBDA s : s # <<>>)

\* the sentence of every row of the final pool
Sentences(tokens) == Tensor([i \in 1..Len(tokens) |-> Join(Stripped(tokens[i]))])

\* the list beam_search returns: the sentences cleaned up, zipped with their
\* likelihoods, then sorted
Result(raw, probs, ps, ls) ==
    LET s == Tensor([i \in 1..Len(raw) |-> beautify(raw[i], ps, ls)])
    IN  SortedDesc(Tensor([i \in 1..Min(Len(s), Len(probs)) |-> <<s[i], probs[i]>>]))

\* the orders of n items
Perms(n) == {q \in [1..n -> 1..n] : \A i, j \in 1..n : q[i] = q[j] => i = j}

\* the lists sorted may return: the sorted list, or, when a key is nan and
\* the keys are not ordered by <, the pairs in an order that is the sort
\* implementation's
Results(raw, probs, ps, ls) ==
    LET r == Result(raw, probs, ps, ls)
    IN  IF \E i \in 1..Len(probs) : IsNaN(probs[i])
        THEN {Tensor([i \in 1..Len(r) |-> r[q[i]]]) : q \in Perms(Len(r))}
        ELSE {r}

\* --------------------------------------------------------- greedy_search
\* logits.argmax(2)[:, -1]: the first index of the largest value
ArgMax(dist) ==
    CHOOSE t \in Vocab :
        /\ \A u \in Vocab : dist[u] <= dist[t]
        /\ \A u \in Vocab : dist[u] = dist[t] => t <= u

\* the loop going on for one more iteration
GreedyCondInclusive(iter, msl) == iter <= msl

\* for _ in range(max_sentence_length)
GreedyCond(iter, msl) == iter < msl

\* ---------------------------------------------------------------- actions
NoPool == [tokens |-> <<>>, probs |-> <<>>]

\* model.forward has not been invoked
NoBatch == [src |-> <<>>, tgt |-> <<>>]

\* the pool begun with the end marker
InitialPoolEos == [tokens |-> <<<<EOS_IDX>>>>, probs |-> <<One>>]

\* the pool before the loop: the row ['<bos>'], with likelihood 1
InitialPool == [tokens |-> <<<<BOS_IDX>>>>, probs |-> <<One>>]

\* beautify is not being called on its own
NoText == sentence = <<>> /\ punc = <<>> /\ links = <<>> /\ once = <<>> /\ twice = <<>>

Init ==
    /\ \/ /\ scenario = FALSE
          /\ beam_width \in 1..MaxBeam
          /\ max_target \in 1..MaxTarget
          /\ max_sentence_length \in 1..MaxLen
       \/ /\ scenario = TRUE
          /\ beam_width = 2
          /\ max_target = 2
          /\ max_sentence_length = 6
    /\ tie \in {"low", "high"}
    /\ model = <<>>
    /\ pc = "loop"
    /\ call = 1
    /\ tgt_tokens = InitialPool.tokens
    /\ target_probs = InitialPool.probs
    /\ merged = NoPool
    /\ sentences = <<>>
    /\ first = <<>>
    /\ g_tgt = <<>>
    /\ g_iter = 0
    /\ g_out = <<>>
    /\ g_pc = "idle"
    /\ training = FALSE
    /\ fault = "none"
    /\ batch = NoBatch
    /\ before = <<>>
    /\ calls = 0
    /\ pools = <<<<InitialPool>>, <<>>>>
    /\ differs = FALSE
    /\ NoText

\* one iteration of the while loop of beam_search
BeamStep ==
    /\ pc = "loop"
    /\ LoopCond(tgt_tokens, max_sentence_length)
    /\ Len(tgt_tokens[1]) <= max_sentence_length
    /\ LET b == Batch(tgt_tokens)
           keys == {<<b.src[i], b.tgt[i]>> : i \in 1..Len(b.tgt)}
       IN  \E ans \in Answers(keys) :
             LET m == ans @@ model
                 all == Expand(tgt_tokens, target_probs,
                               Forward(m, b.src, b.tgt), beam_width)
                 pool == Trim(all, max_target)
             IN  /\ model' = Learned(m)
                 /\ merged' = all
                 /\ tgt_tokens' = pool.tokens
                 /\ target_probs' = pool.probs
                 /\ batch' = b
                 /\ pools' = [pools EXCEPT ![call] = Append(@, pool)]
    /\ before' = target_probs
    /\ calls' = Invoked(calls, tgt_tokens)
    /\ UNCHANGED differs
    /\ UNCHANGED <<beam_width, max_target, max_sentence_length, scenario, tie,
                   pc, call, sentences, first, g_tgt, g_iter, g_out, g_pc>>
    /\ UNCHANGED envVars
    /\ UNCHANGED textVars

\* model.forward raises: the exception leaves beam_search, which has no
\* handler, and nothing is returned
BeamRaise ==
    /\ pc = "loop"
    /\ LoopCond(tgt_tokens, max_sentence_length)
    /\ fault = "raise"
    /\ pc' = "error"
    /\ batch' = Batch(tgt_tokens)
    /\ before' = target_probs
    /\ calls' = Invoked(calls, tgt_tokens)
    /\ UNCHANGED <<pools, differs>>
    /\ UNCHANGED <<beam_width, max_target, max_sentence_length, scenario, tie,
                   model, call, tgt_tokens, target_probs, merged, sentences,
                   first, g_tgt, g_iter, g_out, g_pc>>
    /\ UNCHANGED envVars
    /\ UNCHANGED textVars

\* the loop has ended: build, sort and return the sentences
BeamReturn ==
    /\ pc = "loop"
    /\ ~LoopCond(tgt_tokens, max_sentence_length)
    /\ LET raw == Sentences(tgt_tokens)
       IN  \E ps \in PuncOrders, ls \in LinksOrders :
             sentences' \in Results(raw, target_probs, ps, ls)
    /\ pc' = "returned"
    /\ UNCHANGED <<beam_width, max_target, max_sentence_length, scenario, tie,
                   model, call, tgt_tokens, target_probs, merged, first,
                   g_tgt, g_iter, g_out, g_pc>>
    /\ UNCHANGED envVars
    /\ UNCHANGED histVars
    /\ UNCHANGED textVars

\* beam_search is called again with the same arguments
BeamAgain ==
    /\ pc = "returned"
    /\ call = 1
    /\ first' = sentences
    /\ call' = 2
    /\ tgt_tokens' = InitialPool.tokens
    /\ target_probs' = InitialPool.probs
    /\ merged' = NoPool
    /\ sentences' = <<>>
    /\ pc' = "loop"
    /\ batch' = NoBatch
    /\ before' = <<>>
    /\ calls' = 0
    /\ pools' = [pools EXCEPT ![2] = <<InitialPool>>]
    /\ UNCHANGED <<beam_width, max_target, max_sentence_length, scenario, tie,
                   model, g_tgt, g_iter, g_out, g_pc, differs>>
    /\ UNCHANGED envVars
    /\ UNCHANGED textVars

\* the answers of a scorer on the prefixes that hold the end marker
OnTerminated(m) ==
    [key \in {x \in DOMAIN m : Contains(x[2], EOS_IDX)} |-> m[key]]

\* the answers of a scorer on the prefixes without end marker
OnActive(m) ==
    [key \in {x \in DOMAIN m : ~Contains(x[2], EOS_IDX)} |-> m[key]]

\* beam_search is called again with the same arguments on another scorer,
\* one that answers as the first on every prefix without end marker and in
\* a way of its own on the others
BeamAgainOther ==
    /\ pc = "returned"
    /\ call = 1
    /\ first' = sentences
    /\ call' = 2
    /\ \E other \in [DOMAIN OnTerminated(model) -> EndedDists] :
         /\ model' = OnActive(model) @@ other
         /\ differs' = (other # OnTerminated(model))
    /\ tgt_tokens' = InitialPool.tokens
    /\ target_probs' = InitialPool.probs
    /\ merged' = NoPool
    /\ sentences' = <<>>
    /\ pc' = "loop"
    /\ batch' = NoBatch
    /\ before' = <<>>
    /\ calls' = 0
    /\ pools' = [pools EXCEPT ![2] = <<InitialPool>>]
    /\ UNCHANGED <<beam_width, max_target, max_sentence_length, scenario, tie,
                   g_tgt, g_iter, g_out, g_pc>>
    /\ UNCHANGED envVars
    /\ UNCHANGED textVars

\* greedy_search is called with the same model, source and length, to be
\* compared with a beam search of width 1 that keeps 1 hypothesis
GreedyStart ==
    /\ pc = "returned"
    /\ call = 2
    /\ beam_width = 1
    /\ max_target = 1
    /\ g_pc = "idle"
    /\ training' = FALSE
    /\ g_tgt' = <<BOS_IDX>>
    /\ g_iter' = 0
    /\ g_pc' = "greedy"
    /\ UNCHANGED <<beam_width, max_target, max_sentence_length, scenario, tie,
                   model, pc, call, tgt_tokens, target_probs, merged, sentences,
                   first, g_out, fault>>
    /\ UNCHANGED histVars
    /\ UNCHANGED textVars

\* greedy_search is called on the same model while a beam_search call is
\* between two of its steps: model.eval(), then the first target tensor
GreedyConcurrent ==
    /\ g_pc = "idle"
    /\ training' = FALSE
    /\ g_tgt' = <<BOS_IDX>>
    /\ g_iter' = 0
    /\ g_pc' = "greedy"
    /\ UNCHANGED <<beam_width, max_target, max_sentence_length, scenario, tie,
                   model, pc, call, tgt_tokens, target_probs, merged, sentences,
                   first, g_out, fault>>
    /\ UNCHANGED histVars
    /\ UNCHANGED textVars

\* one iteration of the for loop of greedy_search
GreedyStep ==
    /\ g_pc = "greedy"
    /\ GreedyCond(g_iter, max_sentence_length)
    /\ \E ans \in Answers({<<SourceTokens, g_tgt>>}) :
         LET m == ans @@ model
             next_token_idx == ArgMax(m[<<SourceTokens, g_tgt>>])
         IN  /\ model' = Learned(m)
             /\ g_tgt' = Append(g_tgt, next_token_idx)
             /\ g_pc' = IF next_token_idx = EOS_IDX THEN "greedy_end" ELSE "greedy"
    /\ g_iter' = g_iter + 1
    /\ UNCHANGED <<beam_width, max_target, max_sentence_length, scenario, tie,
                   pc, call, tgt_tokens, target_probs, merged, sentences, first,
                   g_out>>
    /\ UNCHANGED envVars
    /\ UNCHANGED histVars
    /\ UNCHANGED textVars

\* the for loop has ended or was left: join and return the sentence
GreedyReturn ==
    /\ \/ g_pc = "greedy_end"
       \/ g_pc = "greedy" /\ ~GreedyCond(g_iter, max_sentence_length)
    /\ g_out' = Join(Tail(g_tgt))
    /\ g_pc' = "greedy_done"
    /\ UNCHANGED <<beam_width, max_target, max_sentence_length, scenario, tie,
                   model, pc, call, tgt_tokens, target_probs, merged, sentences,
                   first, g_tgt, g_iter>>
    /\ UNCHANGED envVars
    /\ UNCHANGED histVars
    /\ UNCHANGED textVars

Next ==
    \/ BeamStep
    \/ BeamReturn
    \/ BeamAgain
    \/ GreedyStart
    \/ GreedyStep
    \/ GreedyReturn

Spec == Init /\ [][Next]_vars

\* the enabling conditions of the two steps of a beam_search call
StepReady ==
    /\ pc = "loop"
    /\ LoopCond(tgt_tokens, max_sentence_length)
    /\ Len(tgt_tokens[1]) <= max_sentence_length

ReturnReady == pc = "loop" /\ ~LoopCond(tgt_tokens, max_sentence_length)

\* a call that can take its next step takes it: weak fairness of BeamStep
\* and of BeamReturn, with their enabling conditions written out
FairSpec ==
    /\ Spec
    /\ []<>(~StepReady) \/ []<><<BeamStep>>_vars
    /\ []<>(~ReturnReady) \/ []<><<BeamReturn>>_vars

\* ------------------------------- any arguments, a scorer that may fail
\* beam_search called with a max_sentence_length that may be 0, on a scorer
\* that may raise or return nan
InitOpen ==
    /\ scenario = FALSE
    /\ beam_width \in 1..MaxBeam
    /\ max_target \in 1..MaxTarget
    /\ max_sentence_length \in 0..MaxLen
    /\ tie \in {"low", "high"}
    /\ model = <<>>
    /\ pc = "loop"
    /\ call = 1
    /\ tgt_tokens = InitialPool.tokens
    /\ target_probs = InitialPool.probs
    /\ merged = NoPool
    /\ sentences = <<>>
    /\ first = <<>>
    /\ g_tgt = <<>>
    /\ g_iter = 0
    /\ g_out = <<>>
    /\ g_pc = "idle"
    /\ training = FALSE
    /\ fault \in {"none", "raise", "nan"}
    /\ batch = NoBatch
    /\ before = <<>>
    /\ calls = 0
    /\ pools = <<<<InitialPool>>, <<>>>>
    /\ differs = FALSE
    /\ NoText

NextOpen ==
    \/ BeamStep
    \/ BeamRaise
    \/ BeamReturn

SpecOpen == InitOpen /\ [][NextOpen]_vars

\* ------------------------------- two beam_search calls on two scorers
NextTwo ==
    \/ BeamStep
    \/ BeamReturn
    \/ BeamAgainOther

SpecTwo == Init /\ [][NextTwo]_vars

\* ------------------------- a greedy_search call during a beam_search call
\* the two calls share a model that may have been left in training mode
InitShared ==
    /\ scenario = FALSE
    /\ beam_width \in 1..MaxBeam
    /\ max_target \in 1..MaxTarget
    /\ max_sentence_length \in 1..MaxLen
    /\ tie \in {"low", "high"}
    /\ model = <<>>
    /\ pc = "loop"
    /\ call = 1
    /\ tgt_tokens = InitialPool.tokens
    /\ target_probs = InitialPool.probs
    /\ merged = NoPool
    /\ sentences = <<>>
    /\ first = <<>>
    /\ g_tgt = <<>>
    /\ g_iter = 0
    /\ g_out = <<>>
    /\ g_pc = "idle"
    /\ training \in BOOLEAN
    /\ fault = "none"
    /\ batch = NoBatch
    /\ before = <<>>
    /\ calls = 0
    /\ pools = <<<<InitialPool>>, <<>>>>
    /\ differs = FALSE
    /\ NoText

NextShared ==
    \/ BeamStep
    \/ BeamReturn
    \/ GreedyConcurrent
    \/ GreedyStep
    \/ GreedyReturn

SpecShared == InitShared /\ [][NextShared]_vars

\* ------------------------------------------------------- beautify alone
InitText ==
    /\ scenario = FALSE
    /\ beam_width = 1
    /\ max_target = 1
    /\ max_sentence_length = 1
    /\ tie = "low"
    /\ model = <<>>
    /\ pc = "text"
    /\ call = 0
    /\ tgt_tokens = <<>>
    /\ target_probs = <<>>
    /\ merged = NoPool
    /\ sentences = <<>>
    /\ first = <<>>
    /\ g_tgt = <<>>
    /\ g_iter = 0
    /\ g_out = <<>>
    /\ g_pc = "idle"
    /\ training = FALSE
    /\ fault = "none"
    /\ batch = NoBatch
    /\ before = <<>>
    /\ calls = 0
    /\ pools = <<<<>>, <<>>>>
    /\ differs = FALSE
    /\ sentence \in Strings
    /\ punc \in PuncOrders
    /\ links \in LinksOrders
    /\ once = <<>>
    /\ twice = <<>>

BeautifyOnce ==
    /\ pc = "text"
    /\ once' = beautify(sentence, punc, links)
    /\ pc' = "text_once"
    /\ UNCHANGED beamVars
    /\ UNCHANGED <<sentence, punc, links, twice>>

BeautifyTwice ==
    /\ pc = "text_once"
    /\ twice' = beautify(once, punc, links)
    /\ pc' = "text_twice"
    /\ UNCHANGED beamVars
    /\ UNCHANGED <<sentence, punc, links, once>>

NextText == BeautifyOnce \/ BeautifyTwice

SpecText == InitText /\ [][NextText]_vars

\* ================================================================ claims
Same(a, b) == ~Gt(a, b) /\ ~Gt(b, a)

Rows == 1..Len(tgt_tokens)

\* C1: the list returned by beam_search is sorted by likelihood, largest
\* first: no result has a smaller likelihood than the one after it.
C1_SortedOutput ==
    pc = "returned" =>
        \A i \in 1..(Len(sentences) - 1) : Geq(sentences[i][2], sentences[i + 1][2])

\* a list was returned for a final pool that was not in likelihood order
C1_Witness ==
    /\ pc = "returned"
    /\ \E i \in 1..(Len(target_probs) - 1) : Gt(target_probs[i + 1], target_probs[i])
    /\ \E i \in 1..(Len(sentences) - 1) : Gt(sentences[i][2], sentences[i + 1][2])

\* C2: at the end of every step the pool holds at most max_target
\* hypotheses, as token rows and as likelihoods.
C2_PoolBound ==
    /\ Len(tgt_tokens) <= max_target
    /\ Len(target_probs) = Len(tgt_tokens)

\* a step whose merged pool was larger than max_target and was trimmed
C2_Witness ==
    /\ pc = "loop"
    /\ Len(merged.probs) > max_target
    /\ Len(tgt_tokens) = max_target

C4_Terminates == (pc = "loop") ~> (pc = "returned")

\* a call that returned after steps in which no end marker was produced
C4_Witness ==
    /\ pc = "returned"
    /\ max_sentence_length >= 3
    /\ \A i \in Rows : ~Contains(tgt_tokens[i], EOS_IDX)

C6_GreedyAgrees ==
    (g_pc = "greedy_done" /\ beam_width = 1 /\ max_target = 1) =>
        /\ Len(sentences) = 1
        /\ sentences[1][1] = g_out

\* the scorer gave probability 1 to the end marker on the first step
FirstStepEos ==
    /\ <<BeamSource, <<BOS_IDX>>>> \in DOMAIN model
    /\ model[<<BeamSource, <<BOS_IDX>>>>] = EosOne

\* C7 as stated: then one hypothesis is returned, [BEGIN, END], with
\* likelihood 1.0.
C7_Original ==
    (pc = "returned" /\ FirstStepEos) =>
        /\ Len(sentences) = 1
        /\ tgt_tokens = <<<<BOS_IDX, EOS_IDX>>>>
        /\ Same(sentences[1][2], One)

\* [BEGIN, END] padded to length len
PaddedEos(len) == [p \in 1..len |-> IF p = 1 THEN BOS_IDX ELSE IF p = 2 THEN EOS_IDX ELSE PadValue]

\* C7 amended: then the top-ranked result is the empty sentence, its row is
\* [BEGIN, END] padded to max_sentence_length and its likelihood is 1.0
\* decayed max_sentence_length - 2 times; it is the only result when
\* beam_width = 1 or max_target = 1.
C7_Amended ==
    (pc = "returned" /\ FirstStepEos) =>
        /\ sentences[1][1] = <<>>
        /\ sentences[1][2] = [n |-> ProbDen, k |-> 1, d |-> max_sentence_length - 2]
        /\ \E i \in Rows :
             /\ tgt_tokens[i] = PaddedEos(max_sentence_length)
             /\ target_probs[i] = sentences[1][2]
             /\ \A j \in Rows \ {i} : Gt(target_probs[i], target_probs[j])
        /\ (beam_width = 1 \/ max_target = 1) => Len(sentences) = 1

\* the end marker came first and the call went on to a longer bound
C7_Witness ==
    /\ pc = "returned"
    /\ FirstStepEos
    /\ max_sentence_length >= 3
    /\ Len(sentences) >= 2

\* C8 as stated: in the concrete scenario the top result is
\* [begin, a, a, a, end] with likelihood 0.6^3, undecayed.
C8_Original ==
    (pc = "returned" /\ scenario) =>
        /\ tgt_tokens[1] = <<BOS_IDX, TOK_A, TOK_A, TOK_A, EOS_IDX>>
        /\ Same(sentences[1][2], [n |-> 216, k |-> 3, d |-> 0])

\* C8 amended: the top result is the sentence "a a a", its row is
\* [begin, a, a, a, end] with one padding value appended, and its
\* likelihood is 0.6^3 decayed once.
C8_Amended ==
    (pc = "returned" /\ scenario) =>
        /\ sentences[1][1] = <<"a", " ", "a", " ", "a">>
        /\ Same(sentences[1][2], [n |-> 216, k |-> 3, d |-> 1])
        /\ tgt_tokens[1] = <<BOS_IDX, TOK_A, TOK_A, TOK_A, EOS_IDX, PadValue>>
        /\ target_probs[1] = sentences[1][2]
        /\ \A j \in Rows \ {1} : Gt(target_probs[1], target_probs[j])

\* the scenario's call returned
C8_Witness ==
    /\ pc = "returned"
    /\ scenario
    /\ Len(sentences) = 2
    /\ Len(tgt_tokens[1]) = 6

\* C9: beautify applied twice gives what beautify applied once gives.
C9_Idempotent == pc = "text_twice" => twice = once

RECURSIVE PathProduct(_)
\* product of the scorer's probabilities of the tokens of a row
PathProduct(row) ==
    IF Len(row) <= 1 THEN One
    ELSE LET prefix == SubSeq(row, 1, Len(row) - 1)
         IN  Mul(PathProduct(prefix),
                 Prob(model[<<BeamSource, prefix>>][row[Len(row)]]))

\* C10: a hypothesis without end marker at the exit is returned with all
\* its tokens after the begin marker, none added, and with the undecayed
\* product of the conditional probabilities of its tokens.
C10_Unterminated ==
    pc = "returned" =>
        \A i \in Rows :
            ~Contains(tgt_tokens[i], EOS_IDX) =>
                /\ target_probs[i] = PathProduct(tgt_tokens[i])
                /\ target_probs[i].d = 0
                /\ \E j \in 1..Len(sentences) :
                     sentences[j] = <<Join(Tail(tgt_tokens[i])), target_probs[i]>>

\* an unterminated hypothesis returned next to a terminated, decayed one
C10_Witness ==
    /\ pc = "returned"
    /\ \E i, j \in Rows :
         /\ ~Contains(tgt_tokens[i], EOS_IDX)
         /\ Len(tgt_tokens[i]) >= 3
         /\ target_probs[i].n > 0
         /\ target_probs[j].d > 0

\* the position of the first end marker of a row, 0 if it has none
FirstEos(row) ==
    IF Contains(row, EOS_IDX)
    THEN CHOOSE p \in 1..Len(row) :
            row[p] = EOS_IDX /\ \A q \in 1..(p - 1) : row[q] # EOS_IDX
    ELSE 0

\* the rows of the last batch that held the end marker
BatchTerminated == {t \in 1..Len(batch.tgt) : Contains(batch.tgt[t], EOS_IDX)}

BatchActive == {t \in 1..Len(batch.tgt) : ~Contains(batch.tgt[t], EOS_IDX)}

C12_InvalidConfiguration ==
    (beam_width <= 0 \/ max_target <= 0 \/ max_sentence_length <= 0) =>
        /\ calls = 0
        /\ pc # "returned"

\* the scorer has raised, or has returned a row of nan
ScorerFailed ==
    \/ pc = "error"
    \/ \E key \in DOMAIN model : model[key] = NaNDist

\* C13: once the scorer has failed, by raising or by returning an invalid
\* distribution, the beam_search call returns no list.
C13_ScorerFailure == ScorerFailed => pc # "returned"

\* C14: a decode call running next to another one changes no state of the
\* shared model: no step of either call changes the model's mode.
C14_SharedModelUntouched == [][training' = training]_vars

\* C15 as stated: no step is executed once every hypothesis of the pool
\* holds the end marker: every batch that was scored held an active row.
C15_Original == batch.tgt # <<>> => BatchActive # {}

\* C15 amended: the loop stops only when the rows are max_sentence_length
\* long, after max_sentence_length - 1 steps; a step taken when every
\* hypothesis holds the end marker scores every row, pads every row with
\* one 0 and decays every likelihood once, and keeps the pool's rows and
\* their order.
C15_Amended ==
    /\ pc = "returned" =>
          /\ \A i \in Rows : Len(tgt_tokens[i]) = max_sentence_length
          /\ calls = max_sentence_length - 1
    /\ (pc \in {"loop", "returned"} /\ batch.tgt # <<>> /\ BatchActive = {}) =>
          /\ \A t \in 1..Len(batch.tgt) : <<batch.src[t], batch.tgt[t]>> \in DOMAIN model
          /\ Len(tgt_tokens) = Len(batch.tgt)
          /\ \A t \in 1..Len(batch.tgt) :
                /\ tgt_tokens[t] = Append(batch.tgt[t], PadValue)
                /\ target_probs[t] = [before[t] EXCEPT !.d = @ + 1]

\* a step was taken on a pool of two hypotheses that both held the end
\* marker, below max_sentence_length
C15_Witness ==
    /\ pc = "loop"
    /\ Len(batch.tgt) >= 2
    /\ BatchActive = {}
    /\ Len(batch.tgt[1]) < max_sentence_length

\* the active rows of the last batch, in batch order
ActiveOrder == Ascending(BatchActive)

\* the distribution the scorer gave for row t of the last batch
Scored(t) == model[<<batch.src[t], batch.tgt[t]>>]

\* the merged row of the j-th candidate of the a-th active row
ChildRow(a, j) == (a - 1) * beam_width + j

\* C16: in each step the j-th candidate of every active hypothesis yields
\* one child: the parent's tokens followed by the candidate token, with the
\* parent's likelihood times that token's probability; the candidates of a
\* parent are beam_width different tokens, the most probable ones, in
\* decreasing order of probability.
C16_ChildrenAligned ==
    (pc \in {"loop", "returned"} /\ batch.tgt # <<>>) =>
        /\ Len(merged.tokens) =
              Cardinality(BatchActive) * beam_width + Cardinality(BatchTerminated)
        /\ Len(merged.probs) = Len(merged.tokens)
        /\ \A a \in 1..Len(ActiveOrder) :
             LET t == ActiveOrder[a]
                 tok(j) == merged.tokens[ChildRow(a, j)][Len(batch.tgt[t]) + 1]
             IN  /\ \A j \in 1..beam_width :
                       /\ merged.tokens[ChildRow(a, j)] = Append(batch.tgt[t], tok(j))
                       /\ merged.probs[ChildRow(a, j)] = Mul(before[t], Prob(Scored(t)[tok(j)]))
                 /\ \A j, l \in 1..beam_width :
                       j < l => /\ tok(j) # tok(l)
                                /\ Scored(t)[tok(j)] >= Scored(t)[tok(l)]
                 /\ \A v \in Vocab :
                       (\A j \in 1..beam_width : tok(j) # v) =>
                           \A j \in 1..beam_width : Scored(t)[tok(j)] >= Scored(t)[v]

\* a step expanded two active hypotheses of different likelihoods into two
\* children each, of different probabilities
C16_Witness ==
    /\ pc = "loop"
    /\ beam_width = 2
    /\ Len(ActiveOrder) = 2
    /\ before[ActiveOrder[1]] # before[ActiveOrder[2]]
    /\ merged.probs[1] # merged.probs[2]
    /\ merged.probs[3] # merged.probs[4]
    /\ merged.probs[1].n > 0

\* C17: in each step the token appended to every terminated hypothesis is
\* the index of the pad marker.
C17_PadIndex ==
    pc \in {"loop", "returned"} =>
        \A t \in BatchTerminated :
            \E r \in 1..Len(merged.tokens) :
                merged.tokens[r] = Append(batch.tgt[t], PAD_IDX)

\* C18 as stated: the batch passed to the scorer holds the sequences of the
\* active hypotheses only, with one copy of the source per row.
C18_Original ==
    /\ BatchTerminated = {}
    /\ Len(batch.src) = Len(batch.tgt)

\* C18 amended: the batch passed to the scorer holds the sequence of every
\* hypothesis of the pool, the terminated ones included, with one copy of
\* the marked source per row; every row is scored, and every row of the
\* merged pool is one row of the batch with one more token.
C18_Amended ==
    (pc \in {"loop", "returned"} /\ batch.tgt # <<>>) =>
        /\ Len(batch.src) = Len(batch.tgt)
        /\ Len(before) = Len(batch.tgt)
        /\ \A t \in 1..Len(batch.tgt) :
             /\ batch.src[t] = BeamSource
             /\ <<BeamSource, batch.tgt[t]>> \in DOMAIN model
             /\ \E r \in 1..Len(merged.tokens) :
                  SubSeq(merged.tokens[r], 1, Len(merged.tokens[r]) - 1) = batch.tgt[t]
        /\ \A r \in 1..Len(merged.tokens) :
             \E t \in 1..Len(batch.tgt) :
                SubSeq(merged.tokens[r], 1, Len(merged.tokens[r]) - 1) = batch.tgt[t]

\* a batch of a terminated and an active hypothesis was scored
C18_Witness ==
    /\ pc = "loop"
    /\ BatchTerminated # {}
    /\ BatchActive # {}
    /\ \A t \in BatchTerminated : <<BeamSource, batch.tgt[t]>> \in DOMAIN model

\* C19: every step of a beam_search call invokes the scorer once, on the
\* pool the step before it left, expanded, merged and trimmed: a step adds
\* one to the invocations, its batch is the pool as it was (at most
\* max_target rows), and the rows it leaves have one token per invocation
\* after the begin marker.
C19_OncePerStep ==
    [][(pc = "loop" /\ pc' = "loop" /\ tgt_tokens' # tgt_tokens) =>
          /\ calls' = calls + 1
          /\ batch'.tgt = tgt_tokens
          /\ Len(batch'.tgt) <= max_target
          /\ \A i \in 1..Len(tgt_tokens') : Len(tgt_tokens'[i]) = calls' + 1]_vars

\* a second step scored a batch of two hypotheses
C19_Witness ==
    /\ pc = "loop"
    /\ calls >= 2
    /\ Len(batch.tgt) >= 2

\* the rows of the merged pool that are in the pool after the trim
Kept ==
    {r \in 1..Len(merged.tokens) :
        \E i \in Rows : /\ tgt_tokens[i] = merged.tokens[r]
                        /\ target_probs[i] = merged.probs[r]}

\* C20: a merged pool of more than max_target hypotheses is trimmed to
\* max_target of them, none of a smaller likelihood than a discarded one,
\* terminated or not; a merged pool of at most max_target is kept whole.
C20_TrimKeepsBest ==
    (pc \in {"loop", "returned"} /\ batch.tgt # <<>>) =>
        IF Len(merged.probs) > max_target
        THEN /\ Len(tgt_tokens) = max_target
             /\ Len(target_probs) = max_target
             /\ Cardinality(Kept) = max_target
             /\ \A i \in Rows : \E r \in Kept : /\ tgt_tokens[i] = merged.tokens[r]
                                                /\ target_probs[i] = merged.probs[r]
             /\ \A r \in Kept : \A x \in (1..Len(merged.tokens)) \ Kept :
                    Geq(merged.probs[r], merged.probs[x])
        ELSE /\ tgt_tokens = merged.tokens
             /\ target_probs = merged.probs

\* the trim discarded a child that came before a terminated row it kept,
\* of a larger likelihood
C20_Witness ==
    /\ pc = "loop"
    /\ Len(merged.probs) > max_target
    /\ \E r \in Kept, x \in (1..Len(merged.tokens)) \ Kept :
         /\ x < r
         /\ Contains(merged.tokens[r], EOS_IDX)
         /\ ~Contains(merged.tokens[x], EOS_IDX)
         /\ Gt(merged.probs[r], merged.probs[x])

RECURSIVE Pow(_, _)
Pow(b, e) == IF e = 0 THEN 1 ELSE b * Pow(b, e - 1)

\* C21: the merged pool of a step, before the trim, holds beam_width rows
\* for every active hypothesis of the batch and one for every terminated
\* one, and as many likelihoods; so, as long as no row of the pool holds the
\* end marker and beam_width^i is at most max_target, the pool holds
\* beam_width^i rows after the i-th step.
C21_PoolGrowth ==
    (pc \in {"loop", "returned"} /\ batch.tgt # <<>>) =>
        /\ Len(merged.tokens) =
              beam_width * Cardinality(BatchActive) + Cardinality(BatchTerminated)
        /\ Len(merged.probs) =
              beam_width * Cardinality(BatchActive) + Cardinality(BatchTerminated)
        /\ ((\A i \in Rows : ~Contains(tgt_tokens[i], EOS_IDX))
                /\ Pow(beam_width, calls) <= max_target) =>
              /\ Len(tgt_tokens) = Pow(beam_width, calls)
              /\ Len(target_probs) = Pow(beam_width, calls)

\* a step merged the two children of an active hypothesis with a terminated
\* one, and an earlier call had a pool of beam_width rows after its first step
C21_Witness ==
    /\ pc = "loop"
    /\ beam_width = 2
    /\ Cardinality(BatchActive) = 1
    /\ Cardinality(BatchTerminated) = 1
    /\ Len(merged.tokens) = 3
    /\ Len(pools[call][2].tokens) = 2

\* the rest of a pooled row after its begin marker, up to the token before
\* its first end marker
Cut(row) ==
    SubSeq(row, 2, IF Contains(row, EOS_IDX) THEN FirstEos(row) - 1 ELSE Len(row))

\* C22: every hypothesis of the final pool is returned as the text of its
\* tokens after the begin marker and before the first end marker, with its
\* likelihood; no returned text holds the end marker or what followed it.
C22_StripAndCut ==
    pc = "returned" =>
        /\ \A i \in Rows :
             \E j \in 1..Len(sentences) :
                sentences[j] = <<Join(Cut(tgt_tokens[i])), target_probs[i]>>
        /\ \A j \in 1..Len(sentences) :
             /\ \E i \in Rows : sentences[j][1] = Join(Cut(tgt_tokens[i]))
             /\ \A c \in 1..Len(sentences[j][1]) : sentences[j][1][c] # "e"

\* a returned row had tokens before its end marker and the padding value
\* after it
C22_Witness ==
    /\ pc = "returned"
    /\ \E i \in Rows :
         /\ Contains(tgt_tokens[i], EOS_IDX)
         /\ FirstEos(tgt_tokens[i]) > 2
         /\ FirstEos(tgt_tokens[i]) < Len(tgt_tokens[i])
         /\ \E j \in 1..Len(sentences) : sentences[j][1] = Join(Cut(tgt_tokens[i]))

\* C23: the candidates of every active hypothesis are the beam_width most
\* probable tokens of its distribution, most probable first, and of two
\* tokens of equal probability the one of lower index is selected, and
\* ranked, first.
C23_TopKLowerIndex ==
    (pc \in {"loop", "returned"} /\ batch.tgt # <<>>) =>
        \A a \in 1..Len(ActiveOrder) :
            LET t == ActiveOrder[a]
                tok(j) == merged.tokens[ChildRow(a, j)][Len(batch.tgt[t]) + 1]
                first_(x, y) == \/ Scored(t)[x] > Scored(t)[y]
                                \/ Scored(t)[x] = Scored(t)[y] /\ x < y
            IN  /\ \A j, l \in 1..beam_width : j < l => first_(tok(j), tok(l))
                /\ \A v \in Vocab :
                      (\A j \in 1..beam_width : tok(j) # v) =>
                          \A j \in 1..beam_width : first_(tok(j), v)

\* the tokens greedy_search may have after max_sentence_length iterations
GreedyBound == max_sentence_length + 1

\* the token at position p of the greedy sequence is a most probable one
\* after the tokens before it
GreedyBest(p) ==
    LET dist == model[<<SourceTokens, SubSeq(g_tgt, 1, p - 1)>>]
    IN  \A v \in Vocab : dist[g_tgt[p]] >= dist[v]

C25_StartsFromBegin ==
    pc \in {"loop", "returned"} =>
        /\ calls = 0 => /\ tgt_tokens = <<<<BOS_IDX>>>>
                        /\ target_probs = <<[n |-> 1, k |-> 0, d |-> 0]>>
        /\ pools[call][1] = [tokens |-> <<<<BOS_IDX>>>>,
                             probs |-> <<[n |-> 1, k |-> 0, d |-> 0]>>]
        /\ \A i \in Rows : tgt_tokens[i][1] = BOS_IDX
        /\ \A r \in 1..Len(merged.tokens) : merged.tokens[r][1] = BOS_IDX
        /\ \A n \in 1..Len(pools[call]) :
             \A i \in 1..Len(pools[call][n].tokens) :
                pools[call][n].tokens[i][1] = BOS_IDX

\* after two steps the pool holds three hypotheses
C25_Witness ==
    /\ pc = "loop"
    /\ calls = 2
    /\ Len(tgt_tokens) = 3
    /\ Len(pools[call]) = 3

Extensions(t) ==
    {r \in 1..Len(merged.tokens) :
        SubSeq(merged.tokens[r], 1, Len(batch.tgt[t])) = batch.tgt[t]}

C28_LikelihoodsBounded ==
    (pc \in {"loop", "returned"} /\ batch.tgt # <<>>) =>
        /\ \A i \in Rows :
             /\ target_probs[i].n >= 0
             /\ Geq([n |-> 1, k |-> 0, d |-> 0], target_probs[i])
        /\ \A r \in 1..Len(merged.probs) :
             /\ merged.probs[r].n >= 0
             /\ Geq([n |-> 1, k |-> 0, d |-> 0], merged.probs[r])
        /\ \A a \in 1..Len(ActiveOrder) :
             \A j \in 1..beam_width :
                Geq(before[ActiveOrder[a]], merged.probs[ChildRow(a, j)])
        /\ \A t \in BatchTerminated :
             \A r \in Extensions(t) : Geq(before[t], merged.probs[r])
        /\ \A i \in Rows :
             \E t \in 1..Len(before) : Geq(before[t], target_probs[i])

\* a step gave an active hypothesis a child of smaller likelihood and a
\* terminated hypothesis of likelihood 1 a smaller one
C28_Witness ==
    /\ pc = "loop"
    /\ \E a \in 1..Len(ActiveOrder) :
         Gt(before[ActiveOrder[a]], merged.probs[ChildRow(a, 1)])
    /\ \E t \in BatchTerminated :
         \E r \in Extensions(t) : Gt(before[t], merged.probs[r])

C30_TerminatedRowsIgnored ==
    call = 2 =>
        /\ \A n \in 1..Len(pools[2]) : pools[2][n] = pools[1][n]
        /\ pc = "returned" => /\ sentences = first
                              /\ pools[2] = pools[1]

\* the second call returned, on a scorer that answers otherwise than the
\* first for a terminated hypothesis, after scoring a terminated hypothesis
\* next to an active one
C30_Witness ==
    /\ call = 2
    /\ pc = "returned"
    /\ differs
    /\ \E key \in DOMAIN model :
         /\ Contains(key[2], EOS_IDX)
         /\ \E i \in 1..Len(pools[2][Len(key[2])].tokens) :
               ~Contains(pools[2][Len(key[2])].tokens[i], EOS_IDX)

====
